---- MODULE Spec2Model ----
(***************************************************************************)
(* kubectl-htpasswd: the credential file codec (newPasswordFile, Bytes),   *)
(* the mutation operations (ListUsers, DeleteUser, SetPassword) and the    *)
(* command's Validate/Run control flow, modelled from pkg/htpasswd.        *)
(*                                                                         *)
(* A Go string is modelled as a sequence of one-character strings.         *)
(***************************************************************************)
EXTENDS Integers, Sequences, FiniteSets, TLC

(***************************************************************************)
(* Bounds of the model.                                                    *)
(***************************************************************************)
\* longest raw file handed to newPasswordFile in SpecDecode
MaxLen == 7
\* longest username handed to the mutation operations in SpecStore
MaxUser == 2
\* longest raw file from which the stores of SpecStore are decoded
MaxFile == 5

(***************************************************************************)
(* Strings.                                                                *)
(***************************************************************************)
\* the characters raw files and usernames are drawn from: a letter, the
\* field separator, the line separator and a blank
FileChars == {"a", ":", "\n", " "}

\* all strings over S of length at most n
StringsUpTo(S, n) == UNION {[1..k -> S] : k \in 0..n}

\* unicode.IsSpace, as strings.TrimSpace uses it, on the characters of the model
IsSpace(c) == c \in {" ", "\t", "\n", "\r", "\f"}

\* a function on 1..n as the sequence of its values
AsSeq(f) == SubSeq(f, 1, Len(f))

\* strings.TrimSpace: s from its first to its last character that is no space
TrimSpace(s) ==
  LET keep == {i \in 1..Len(s) : ~IsSpace(s[i])}
  IN IF keep = {} THEN <<>>
     ELSE SubSeq(s, CHOOSE i \in keep : \A j \in keep : i <= j,
                    CHOOSE i \in keep : \A j \in keep : j <= i)

\* strings.Split(s, sep) for a one-character separator: n separators give
\* n + 1 pieces, the empty string gives one empty piece
Split(s, sep) ==
  LET at == {i \in 1..Len(s) : s[i] = sep}
      n == Cardinality(at) + 1
      \* the position of the k-th separator; 0 and Len(s) + 1 bracket the string
      pos(k) == IF k = 0 THEN 0
                ELSE IF k = n THEN Len(s) + 1
                ELSE CHOOSE i \in at : Cardinality({j \in at : j < i}) = k - 1
  IN AsSeq([k \in 1..n |-> SubSeq(s, pos(k - 1) + 1, pos(k) - 1)])

(***************************************************************************)
(* passwordFile and its codec.                                             *)
(***************************************************************************)
\* a nil *passwordFile
Nil == [nil |-> TRUE]

\* &passwordFile{passwords: m}
PasswordFile(m) == [passwords |-> m]

\* make(map[string]string)
EmptyMap == [u \in {} |-> <<>>]

\* m[k] = v
MapSet(m, k, v) == [u \in DOMAIN m \cup {k} |-> IF u = k THEN v ELSE m[u]]

\* delete(m, k)
MapDelete(m, k) == [u \in DOMAIN m \ {k} |-> m[u]]

ErrTokens == "invalid number of tokens"
ErrExists == "username already exists"
ErrNoUser == "user does not exist"
NoErr == ""

\* DecodeLines accepting every line of two fields or more
RECURSIVE DecodeLinesTwoOrMore(_, _, _)
DecodeLinesTwoOrMore(lines, i, m) ==
  IF i > Len(lines) THEN [f |-> PasswordFile(m), err |-> NoErr]
  ELSE LET l == TrimSpace(lines[i]) IN
    IF l = <<>> THEN DecodeLinesTwoOrMore(lines, i + 1, m)
    ELSE LET parts == Split(l, ":") IN
      IF Len(parts) < 2 THEN [f |-> Nil, err |-> ErrTokens]
      ELSE LET username == TrimSpace(parts[1])
               password == TrimSpace(parts[2]) IN
        IF username \in DOMAIN m THEN [f |-> Nil, err |-> ErrExists]
        ELSE DecodeLinesTwoOrMore(lines, i + 1, MapSet(m, username, password))

\* DecodeLines letting a later line overwrite an earlier one
RECURSIVE DecodeLinesOverwriting(_, _, _)
DecodeLinesOverwriting(lines, i, m) ==
  IF i > Len(lines) THEN [f |-> PasswordFile(m), err |-> NoErr]
  ELSE LET l == TrimSpace(lines[i]) IN
    IF l = <<>> THEN DecodeLinesOverwriting(lines, i + 1, m)
    ELSE LET parts == Split(l, ":") IN
      IF Len(parts) # 2 THEN [f |-> Nil, err |-> ErrTokens]
      ELSE DecodeLinesOverwriting(lines, i + 1,
                                  MapSet(m, TrimSpace(parts[1]), TrimSpace(parts[2])))

\* DecodeLines returning the lines decoded so far along with the error
RECURSIVE DecodeLinesPartial(_, _, _)
DecodeLinesPartial(lines, i, m) ==
  IF i > Len(lines) THEN [f |-> PasswordFile(m), err |-> NoErr]
  ELSE LET l == TrimSpace(lines[i]) IN
    IF l = <<>> THEN DecodeLinesPartial(lines, i + 1, m)
    ELSE LET parts == Split(l, ":") IN
      IF Len(parts) # 2 THEN [f |-> PasswordFile(m), err |-> ErrTokens]
      ELSE LET username == TrimSpace(parts[1])
               password == TrimSpace(parts[2]) IN
        IF username \in DOMAIN m THEN [f |-> PasswordFile(m), err |-> ErrExists]
        ELSE DecodeLinesPartial(lines, i + 1, MapSet(m, username, password))

\* the loop of newPasswordFile from line i of lines on, m being f.passwords
RECURSIVE DecodeLines(_, _, _)
DecodeLines(lines, i, m) ==
  IF i > Len(lines) THEN [f |-> PasswordFile(m), err |-> NoErr]
  ELSE LET l == TrimSpace(lines[i]) IN
    IF l = <<>> THEN DecodeLines(lines, i + 1, m)
    ELSE LET parts == Split(l, ":") IN
      IF Len(parts) # 2 THEN [f |-> Nil, err |-> ErrTokens]
      ELSE LET username == TrimSpace(parts[1])
               password == TrimSpace(parts[2]) IN
        IF username \in DOMAIN m THEN [f |-> Nil, err |-> ErrExists]
        ELSE DecodeLines(lines, i + 1, MapSet(m, username, password))

newPasswordFile(data) == DecodeLines(Split(data, "\n"), 1, EmptyMap)

(***************************************************************************)
(* crypto/sha1 and encoding/base64, as SetPassword uses them.  A uint32 is *)
(* the pair <<hi, lo>> of its 16-bit halves.                               *)
(***************************************************************************)
LowerCase ==
  <<"a", "b", "c", "d", "e", "f", "g", "h", "i", "j", "k", "l", "m",
    "n", "o", "p", "q", "r", "s", "t", "u", "v", "w", "x", "y", "z">>

\* the byte of a character of a password ([]byte(password))
Ord(c) == 96 + (CHOOSE i \in 1..Len(LowerCase) : LowerCase[i] = c)

\* n (below 2^31) as w bits, most significant first
Bits(n, w) ==
  AsSeq([i \in 1..w |-> IF w - i > 30 THEN 0 ELSE (n \div (2 ^ (w - i))) % 2])

\* the number a sequence of bits stands for, halving the sequence
RECURSIVE BitsValue(_)
BitsValue(b) ==
  IF Len(b) = 0 THEN 0
  ELSE IF Len(b) = 1 THEN b[1]
  ELSE LET h == Len(b) \div 2
       IN (BitsValue(SubSeq(b, 1, h)) * (2 ^ (Len(b) - h)))
          + BitsValue(SubSeq(b, h + 1, Len(b)))

\* a & b on 16-bit halves: bits from..to of the result, halving the range
RECURSIVE AndBits(_, _, _, _)
AndBits(a, b, from, to) ==
  IF from = to
  THEN (2 ^ from) * (((a \div (2 ^ from)) % 2) * ((b \div (2 ^ from)) % 2))
  ELSE AndBits(a, b, from, (from + to) \div 2)
       + AndBits(a, b, ((from + to) \div 2) + 1, to)

And16(a, b) == AndBits(a, b, 0, 15)

\* x & y, x | y, x ^ y and ^x on uint32
And(x, y) == <<And16(x[1], y[1]), And16(x[2], y[2])>>
Or(x, y) == <<x[1] + y[1] - And16(x[1], y[1]), x[2] + y[2] - And16(x[2], y[2])>>
Xor(x, y) ==
  <<x[1] + y[1] - (2 * And16(x[1], y[1])), x[2] + y[2] - (2 * And16(x[2], y[2]))>>
Not(x) == <<65535 - x[1], 65535 - x[2]>>

\* bits.RotateLeft32(x, n)
RECURSIVE Rotl(_, _)
Rotl(x, n) ==
  IF n >= 16 THEN Rotl(<<x[2], x[1]>>, n - 16)
  ELSE <<((x[1] * (2 ^ n)) % 65536) + (x[2] \div (2 ^ (16 - n))),
         ((x[2] * (2 ^ n)) % 65536) + (x[1] \div (2 ^ (16 - n)))>>

\* x + y on uint32 (modulo 2^32)
Add32(x, y) ==
  <<(x[1] + y[1] + ((x[2] + y[2]) \div 65536)) % 65536, (x[2] + y[2]) % 65536>>

\* the bytes of a string as bits
RECURSIVE BytesBits(_)
BytesBits(s) ==
  IF s = <<>> THEN <<>> ELSE Bits(Ord(Head(s)), 8) \o BytesBits(Tail(s))

\* the padded message: a 1 bit, zeros up to 448 modulo 512, the length on 64 bits
Sha1Pad(bits) ==
  LET l == Len(bits)
      z == (447 - l) % 512
  IN bits \o <<1>> \o [i \in 1..z |-> 0] \o Bits(l, 64)

\* the sixteen big-endian uint32 of one 512-bit block
BlockWords(block) ==
  AsSeq([i \in 1..16 |-> <<BitsValue(SubSeq(block, (32 * (i - 1)) + 1, (32 * i) - 16)),
                          BitsValue(SubSeq(block, (32 * i) - 15, 32 * i))>>])

\* the message schedule extended to n words, half of the missing words at a time
\* (the first half is bound once, as a value, before the second is computed)
RECURSIVE ScheduleTo(_, _)
ScheduleTo(w, n) ==
  IF Len(w) >= n THEN w
  ELSE IF Len(w) + 1 = n
  THEN Append(w, Rotl(Xor(Xor(w[n - 3], w[n - 8]), Xor(w[n - 14], w[n - 16])), 1))
  ELSE CHOOSE r \in {ScheduleTo(half, n) : half \in {ScheduleTo(w, (Len(w) + n) \div 2)}} :
         TRUE

\* the message schedule of one block: w[1..16] extended to w[1..80]
Schedule(w) == ScheduleTo(w, 80)

Sha1F(t, b, c, d) ==
  IF t <= 20 THEN Or(And(b, c), And(Not(b), d))
  ELSE IF t <= 40 THEN Xor(Xor(b, c), d)
  ELSE IF t <= 60 THEN Or(Or(And(b, c), And(b, d)), And(c, d))
  ELSE Xor(Xor(b, c), d)

\* 0x5A827999, 0x6ED9EBA1, 0x8F1BBCDC, 0xCA62C1D6
Sha1K(t) ==
  IF t <= 20 THEN <<23170, 31129>>
  ELSE IF t <= 40 THEN <<28377, 60321>>
  ELSE IF t <= 60 THEN <<36635, 48348>>
  ELSE <<51810, 49622>>

\* round st.t on st.v = <<a, b, c, d, e>>
Round(w, st) ==
  LET t == st.t
      v == st.v
      tmp == Add32(Add32(Add32(Add32(Rotl(v[1], 5), Sha1F(t, v[2], v[3], v[4])),
                               v[5]), w[t]), Sha1K(t))
  IN [t |-> t + 1, v |-> <<tmp, v[1], Rotl(v[2], 30), v[3], v[4]>>]

\* the rounds from round st.t to round last, half of them at a time
RECURSIVE RoundsTo(_, _, _)
RoundsTo(w, st, last) ==
  IF st.t > last THEN st
  ELSE IF st.t = last THEN Round(w, st)
  ELSE CHOOSE r \in {RoundsTo(w, half, last) :
                      half \in {RoundsTo(w, st, (st.t + last) \div 2)}} : TRUE

\* the 80 rounds on one block
Rounds(w, h) == RoundsTo(w, [t |-> 1, v |-> h], 80).v

\* the digest state after one more block, w being its message schedule
Sha1Block(w, h) ==
  CHOOSE r \in {AsSeq([k \in 1..5 |-> Add32(h[k], v[k])]) : v \in {Rounds(w, h)}} : TRUE

\* the digest state after the blocks of msg from bit position i on
RECURSIVE Sha1Blocks(_, _, _)
Sha1Blocks(msg, i, h) ==
  IF i > Len(msg) THEN h
  ELSE CHOOSE r \in {Sha1Blocks(msg, i + 512, next) :
                      next \in {Sha1Block(w, h) :
                                  w \in {Schedule(BlockWords(SubSeq(msg, i, i + 511)))}}} :
         TRUE

\* 0x67452301, 0xEFCDAB89, 0x98BADCFE, 0x10325476, 0xC3D2E1F0
Sha1Init ==
  <<<<26437, 8961>>, <<61389, 43913>>, <<39098, 56574>>, <<4146, 21622>>,
    <<50130, 57840>>>>

\* the bits of a uint32, most significant first
WordBits(x) == Bits(x[1], 16) \o Bits(x[2], 16)

\* the digest as 160 bits
DigestBits(h) ==
  WordBits(h[1]) \o WordBits(h[2]) \o WordBits(h[3]) \o WordBits(h[4]) \o WordBits(h[5])

\* sha1.New(); hash.Write([]byte(password)); hash.Sum(nil), as 160 bits
Sha1(password) ==
  CHOOSE r \in {DigestBits(h) :
                 h \in {Sha1Blocks(msg, 1, Sha1Init) :
                         msg \in {Sha1Pad(BytesBits(password))}}} : TRUE

Base64Alphabet ==
  <<"A", "B", "C", "D", "E", "F", "G", "H", "I", "J", "K", "L", "M", "N", "O", "P",
    "Q", "R", "S", "T", "U", "V", "W", "X", "Y", "Z", "a", "b", "c", "d", "e", "f",
    "g", "h", "i", "j", "k", "l", "m", "n", "o", "p", "q", "r", "s", "t", "u", "v",
    "w", "x", "y", "z", "0", "1", "2", "3", "4", "5", "6", "7", "8", "9", "+", "/">>

\* base64.StdEncoding.EncodeToString on a sequence of bits (whole bytes)
Base64(bits) ==
  LET padded == bits \o [i \in 1..((6 - (Len(bits) % 6)) % 6) |-> 0]
      n == Len(padded) \div 6
      chars == [i \in 1..n |->
                  Base64Alphabet[BitsValue(SubSeq(padded, 6 * (i - 1) + 1, 6 * i)) + 1]]
  IN chars \o [i \in 1..((4 - (n % 4)) % 4) |-> "="]

\* the passwords the terminal may deliver
Secret == <<"s", "e", "c", "r", "e", "t">>
Passwords == {Secret, <<"a">>, <<>>}

ShaTag == <<"{", "S", "H", "A", "}">>

\* "{SHA}" + base64.StdEncoding.EncodeToString(hash.Sum(nil))
ShaCredential(password) ==
  CHOOSE r \in {ShaTag \o Base64(digest) : digest \in {Sha1(password)}} : TRUE

\* the credential of every password of the model, computed once
Credentials == [p \in Passwords |-> ShaCredential(p)]

(***************************************************************************)
(* The mutation operations of passwordFile.  Each returns the file after   *)
(* the call and the error returned.                                        *)
(***************************************************************************)
\* all the orders a range over a Go map can take: the sequences that hold
\* every element of S exactly once
Orders(S) ==
  {o \in [1..Cardinality(S) -> S] : \A i, j \in 1..Cardinality(S) : o[i] = o[j] => i = j}

\* ListUsers: the keys, in any of the orders the range may take
ListUsers(f) == Orders(DOMAIN f.passwords)

\* DeleteUser without the check that the user exists
DeleteUserUnchecked(f, username) ==
  [f |-> PasswordFile(MapDelete(f.passwords, username)), err |-> NoErr]

\* DeleteUser dropping every entry
DeleteUserAll(f, username) ==
  IF username \notin DOMAIN f.passwords
  THEN [f |-> f, err |-> ErrNoUser]
  ELSE [f |-> PasswordFile(EmptyMap), err |-> NoErr]

DeleteUser(f, username) ==
  IF username \notin DOMAIN f.passwords
  THEN [f |-> f, err |-> ErrNoUser]
  ELSE [f |-> PasswordFile(MapDelete(f.passwords, username)), err |-> NoErr]

\* SetPassword keeping the credential of a user that exists
SetPasswordInsertOnly(f, username, password) ==
  [f |-> IF username \in DOMAIN f.passwords THEN f
         ELSE PasswordFile(MapSet(f.passwords, username, Credentials[password])),
   err |-> NoErr]

\* hash.Write never returns an error
SetPassword(f, username, password) ==
  [f |-> PasswordFile(MapSet(f.passwords, username, Credentials[password])),
   err |-> NoErr]

\* WriteEntries without the newline that ends each entry
RECURSIVE WriteEntriesUnterminated(_, _, _)
WriteEntriesUnterminated(m, order, i) ==
  IF i > Len(order) THEN <<>>
  ELSE order[i] \o <<":">> \o m[order[i]] \o WriteEntriesUnterminated(m, order, i + 1)

\* the buffer of Bytes after the entries order[i..] were written
RECURSIVE WriteEntries(_, _, _)
WriteEntries(m, order, i) ==
  IF i > Len(order) THEN <<>>
  ELSE order[i] \o <<":">> \o m[order[i]] \o <<"\n">> \o WriteEntries(m, order, i + 1)

\* Bytes: one line per entry, in any of the orders the range may take
Bytes(f) == {WriteEntries(f.passwords, o, 1) : o \in Orders(DOMAIN f.passwords)}

(***************************************************************************)
(* State.                                                                  *)
(***************************************************************************)
VARIABLES
  pc,            \* the step the program is at
  args,          \* o.args
  createSecret,  \* o.createSecret
  deleteUser,    \* o.deleteUser
  listUsers,     \* o.listUsers
  username,      \* o.username
  remote,        \* the secret as the cluster holds it
  secretData,    \* secret.Data[o.keyName] of the secret Run holds
  data,          \* the bytes handed to newPasswordFile
  htpasswd,      \* the *passwordFile
  before,        \* the *passwordFile as it was before the last operation on it
  op,            \* the last operation on the passwordFile and its arguments
  users,         \* the slice ListUsers returned
  err,           \* the error last returned
  stdout,        \* the lines printed
  password1,     \* the first password read
  password2,     \* the second password read
  writes,        \* the Create and Update calls made, in order
  encoded,       \* the bytes Bytes() returned
  reread,        \* what newPasswordFile returns for the encoded bytes
  exitCode       \* the status os.Exit was called with, -1 while it was not

vars ==
  <<pc, args, createSecret, deleteUser, listUsers, username, remote, secretData,
    data, htpasswd, before, op, users, err, stdout, password1, password2, writes,
    encoded, reread, exitCode>>

NoOp == [name |-> "none", username |-> <<>>, password |-> <<>>]

\* the values of the variables a specification does not use
IdleCommand ==
  /\ args = <<>>
  /\ createSecret = FALSE
  /\ deleteUser = FALSE
  /\ listUsers = FALSE
  /\ username = <<>>
  /\ remote = [kind |-> "none", data |-> <<>>]
  /\ secretData = <<>>
  /\ stdout = <<>>
  /\ password1 = <<>>
  /\ password2 = <<>>
  /\ writes = <<>>
  /\ exitCode = -1

IdleStore ==
  /\ before = Nil
  /\ op = NoOp
  /\ users = <<>>
  /\ encoded = <<>>
  /\ reread = [f |-> Nil, err |-> NoErr]

CommandUnchanged ==
  UNCHANGED <<args, createSecret, deleteUser, listUsers, username, remote,
              secretData, stdout, password1, password2, writes, exitCode>>

(***************************************************************************)
(* SpecDecode: newPasswordFile on every raw file up to MaxLen characters.  *)
(***************************************************************************)
InitDecode ==
  /\ pc = "newPasswordFile"
  /\ data \in StringsUpTo(FileChars, MaxLen)
  /\ htpasswd = Nil
  /\ err = NoErr
  /\ IdleCommand
  /\ IdleStore

\* htpasswd, err := newPasswordFile(data)
Decode ==
  /\ pc = "newPasswordFile"
  /\ LET r == newPasswordFile(data)
     IN /\ htpasswd' = r.f
        /\ err' = r.err
  /\ pc' = "decoded"
  /\ UNCHANGED <<data, before, op, users, encoded, reread>>
  /\ CommandUnchanged

NextDecode == Decode

SpecDecode == InitDecode /\ [][NextDecode]_vars

(***************************************************************************)
(* SpecStore: a decoded passwordFile, at most one DeleteUser or             *)
(* SetPassword on it, ListUsers, then Bytes and the next read of the bytes.*)
(***************************************************************************)
\* the usernames handed to the operations
Usernames == StringsUpTo(FileChars, MaxUser)

\* the files newPasswordFile decodes, among those up to n characters
DecodedFiles(n) ==
  {r.f : r \in {q \in {newPasswordFile(d) : d \in StringsUpTo(FileChars, n)} :
                  q.err = NoErr}}

InitStore ==
  /\ pc = "decoded"
  /\ data = <<>>
  /\ htpasswd \in DecodedFiles(MaxFile)
  /\ err = NoErr
  /\ IdleCommand
  /\ IdleStore

\* ListUsers reads the keys and changes nothing
StoreListUsers ==
  /\ pc \in {"decoded", "operated"}
  /\ users' \in ListUsers(htpasswd)
  /\ pc' = "listed"
  /\ UNCHANGED <<data, htpasswd, before, op, err, encoded, reread>>
  /\ CommandUnchanged

StoreDeleteUser ==
  /\ pc = "decoded"
  /\ \E u \in Usernames :
       LET r == DeleteUser(htpasswd, u)
       IN /\ before' = htpasswd
          /\ op' = [name |-> "DeleteUser", username |-> u, password |-> <<>>]
          /\ htpasswd' = r.f
          /\ err' = r.err
  /\ pc' = "operated"
  /\ UNCHANGED <<data, users, encoded, reread>>
  /\ CommandUnchanged

StoreSetPassword ==
  /\ pc = "decoded"
  /\ \E u \in Usernames, p \in Passwords :
       LET r == SetPassword(htpasswd, u, p)
       IN /\ before' = htpasswd
          /\ op' = [name |-> "SetPassword", username |-> u, password |-> p]
          /\ htpasswd' = r.f
          /\ err' = r.err
  /\ pc' = "operated"
  /\ UNCHANGED <<data, users, encoded, reread>>
  /\ CommandUnchanged

StoreBytes ==
  /\ pc \in {"decoded", "operated", "listed"}
  /\ encoded' \in Bytes(htpasswd)
  /\ pc' = "encoded"
  /\ UNCHANGED <<data, htpasswd, before, op, users, err, reread>>
  /\ CommandUnchanged

StoreReread ==
  /\ pc = "encoded"
  /\ reread' = newPasswordFile(encoded)
  /\ pc' = "reread"
  /\ UNCHANGED <<data, htpasswd, before, op, users, err, encoded>>
  /\ CommandUnchanged

NextStore ==
  \/ StoreListUsers
  \/ StoreDeleteUser
  \/ StoreSetPassword
  \/ StoreBytes
  \/ StoreReread

SpecStore == InitStore /\ [][NextStore]_vars

(***************************************************************************)
(* Spec: one invocation of the command: Complete, Validate, Run.           *)
(***************************************************************************)
SecretName == <<"s">>

\* the usernames given on the command line
RunUsernames ==
  {<<"a">>, <<"a", "a">>, <<"a", ":">>, <<"\n", "a">>, <<" ", "a">>, <<>>}

\* the argument lists given on the command line
RunArgs ==
  {<<>>, <<SecretName>>, <<SecretName, <<"a">>, <<"a">>>>}
    \cup {<<SecretName, u>> : u \in RunUsernames}

\* the values secret.Data[o.keyName] may hold in the cluster
RunFiles ==
  {<<>>,
   <<"a", ":", "a", "\n">>,
   <<"a", ":", "a", "\n", "a", "a", ":", "a", "\n">>,
   <<"a", "\n">>,
   <<"a", ":", "\n", "a", ":", "\n">>}

\* the secret as the cluster may hold it: not at all, behind an API error,
\* with another type, without the key, or with the key
RemoteSecrets ==
  {[kind |-> k, data |-> <<>>] : k \in {"NotFound", "StatusError", "Error", "WrongType", "NoKey"}}
    \cup {[kind |-> "Opaque", data |-> d] : d \in RunFiles}

ErrComplete == "complete failed"
ErrArgs == "secret and username are required"
ErrType == "invalid secret type"
ErrNoKey == "Secret with key does not exist"
ErrTerminal == "terminal error"
ErrRemote == "remote error"

Line(text) == [text |-> text, value |-> <<>>]

Init ==
  /\ pc = "Complete"
  /\ args \in RunArgs
  /\ createSecret \in BOOLEAN
  /\ deleteUser \in BOOLEAN
  /\ listUsers \in BOOLEAN
  /\ username = <<>>
  /\ remote \in RemoteSecrets
  /\ secretData = <<>>
  /\ data = <<>>
  /\ htpasswd = Nil
  /\ err = NoErr
  /\ stdout = <<>>
  /\ password1 = <<>>
  /\ password2 = <<>>
  /\ writes = <<>>
  /\ exitCode = -1
  /\ IdleStore

\* Complete: loading the configuration and building the client may fail
Complete ==
  /\ pc = "Complete"
  /\ \E ok \in BOOLEAN :
       /\ err' = IF ok THEN NoErr ELSE ErrComplete
       /\ pc' = IF ok THEN "Validate" ELSE "returned"
  /\ UNCHANGED <<args, createSecret, deleteUser, listUsers, username, remote,
                 secretData, data, htpasswd, before, op, users, stdout, password1,
                 password2, writes, encoded, reread, exitCode>>

Validate ==
  /\ pc = "Validate"
  /\ IF Len(args) = 1 /\ listUsers
     THEN /\ username' = username
          /\ err' = NoErr
          /\ pc' = "getSecret"
     ELSE IF Len(args) = 2
     THEN /\ username' = args[2]
          /\ err' = NoErr
          /\ pc' = "getSecret"
     ELSE /\ username' = username
          /\ err' = ErrArgs
          /\ pc' = "returned"
  /\ UNCHANGED <<args, createSecret, deleteUser, listUsers, remote, secretData,
                 data, htpasswd, before, op, users, stdout, password1, password2,
                 writes, encoded, reread, exitCode>>

\* secret, data, err := o.getSecret()
GetSecret ==
  /\ pc = "getSecret"
  /\ IF createSecret
     THEN /\ data' = <<>>
          /\ UNCHANGED <<err, stdout, exitCode>>
          /\ pc' = "newPasswordFile"
     ELSE IF remote.kind = "NotFound"
     THEN /\ stdout' = Append(stdout, Line("Secret not found"))
          /\ exitCode' = 1
          /\ pc' = "exited"
          /\ UNCHANGED <<data, err>>
     ELSE IF remote.kind = "StatusError"
     THEN /\ stdout' = Append(stdout, Line("Error getting secret"))
          /\ exitCode' = 1
          /\ pc' = "exited"
          /\ UNCHANGED <<data, err>>
     ELSE IF remote.kind = "Error"
     THEN /\ stdout' = Append(stdout, Line("Unkown error"))
          /\ exitCode' = 1
          /\ pc' = "exited"
          /\ UNCHANGED <<data, err>>
     ELSE IF remote.kind = "WrongType"
     THEN /\ err' = ErrType
          /\ pc' = "returned"
          /\ UNCHANGED <<data, stdout, exitCode>>
     ELSE IF remote.kind = "NoKey"
     THEN /\ err' = ErrNoKey
          /\ pc' = "returned"
          /\ UNCHANGED <<data, stdout, exitCode>>
     ELSE /\ data' = remote.data
          /\ pc' = "newPasswordFile"
          /\ UNCHANGED <<err, stdout, exitCode>>
  /\ secretData' = data'
  /\ UNCHANGED <<args, createSecret, deleteUser, listUsers, username, remote,
                 htpasswd, before, op, users, password1, password2, writes,
                 encoded, reread>>

\* htpasswd, err := newPasswordFile(data), and the branch Run takes after it
RunNewPasswordFile ==
  /\ pc = "newPasswordFile"
  /\ LET r == newPasswordFile(data)
     IN /\ htpasswd' = r.f
        /\ err' = r.err
        /\ pc' = IF r.err # NoErr THEN "returned"
                 ELSE IF listUsers THEN "ListUsers"
                 ELSE IF deleteUser THEN "DeleteUser"
                 ELSE "ReadPassword1"
  /\ UNCHANGED <<args, createSecret, deleteUser, listUsers, username, remote,
                 secretData, data, before, op, users, stdout, password1, password2,
                 writes, encoded, reread, exitCode>>

UserLines(us) == [i \in 1..Len(us) |-> [text |-> "user", value |-> us[i]]]

\* if o.listUsers { ... return nil }
RunListUsers ==
  /\ pc = "ListUsers"
  /\ before' = htpasswd
  /\ op' = [name |-> "ListUsers", username |-> <<>>, password |-> <<>>]
  /\ \E us \in ListUsers(htpasswd) :
       /\ users' = us
       /\ stdout' = Append(stdout, Line("Existing users:")) \o UserLines(us)
  /\ err' = NoErr
  /\ pc' = "returned"
  /\ UNCHANGED <<args, createSecret, deleteUser, listUsers, username, remote,
                 secretData, data, htpasswd, password1, password2, writes,
                 encoded, reread, exitCode>>

\* if o.deleteUser { htpasswd.DeleteUser(o.username); secret.Data[...] = htpasswd.Bytes() ...
RunDeleteUser ==
  /\ pc = "DeleteUser"
  /\ before' = htpasswd
  /\ op' = [name |-> "DeleteUser", username |-> username, password |-> <<>>]
  /\ LET r == DeleteUser(htpasswd, username)
     IN /\ htpasswd' = r.f
        /\ err' = r.err
        /\ IF r.err # NoErr
           THEN /\ pc' = "returned"
                /\ UNCHANGED <<encoded, secretData>>
           ELSE /\ pc' = "Update"
                /\ encoded' \in Bytes(r.f)
                /\ secretData' = encoded'
  /\ UNCHANGED <<args, createSecret, deleteUser, listUsers, username, remote,
                 data, users, stdout, password1, password2, writes, reread,
                 exitCode>>

\* password1, err := terminal.ReadPassword(0)
RunReadPassword1 ==
  /\ pc = "ReadPassword1"
  /\ \/ /\ password1' \in Passwords
        /\ err' = NoErr
        /\ pc' = "ReadPassword2"
     \/ /\ password1' = <<>>
        /\ err' = ErrTerminal
        /\ pc' = "returned"
  /\ stdout' = Append(stdout, Line("Enter password: "))
  /\ UNCHANGED <<args, createSecret, deleteUser, listUsers, username, remote,
                 secretData, data, htpasswd, before, op, users, password2, writes,
                 encoded, reread, exitCode>>

\* password2, err := terminal.ReadPassword(0), and the comparison of the two
RunReadPassword2 ==
  /\ pc = "ReadPassword2"
  /\ \/ /\ password2' \in Passwords
        /\ err' = NoErr
        /\ IF password1 # password2'
           THEN /\ stdout' = stdout \o <<Line("Repeat password: "),
                                          Line("passwords don't match")>>
                /\ exitCode' = 1
                /\ pc' = "exited"
           ELSE /\ stdout' = Append(stdout, Line("Repeat password: "))
                /\ exitCode' = exitCode
                /\ pc' = "SetPassword"
     \/ /\ password2' = <<>>
        /\ err' = ErrTerminal
        /\ stdout' = Append(stdout, Line("Repeat password: "))
        /\ exitCode' = exitCode
        /\ pc' = "returned"
  /\ UNCHANGED <<args, createSecret, deleteUser, listUsers, username, remote,
                 secretData, data, htpasswd, before, op, users, password1, writes,
                 encoded, reread>>

\* htpasswd.SetPassword(o.username, string(password1)); secret.Data[...] = htpasswd.Bytes()
RunSetPassword ==
  /\ pc = "SetPassword"
  /\ before' = htpasswd
  /\ op' = [name |-> "SetPassword", username |-> username, password |-> password1]
  /\ LET r == SetPassword(htpasswd, username, password1)
     IN /\ htpasswd' = r.f
        /\ err' = r.err
        /\ IF r.err # NoErr
           THEN /\ pc' = "returned"
                /\ UNCHANGED <<encoded, secretData>>
           ELSE /\ pc' = IF createSecret THEN "Create" ELSE "Update"
                /\ encoded' \in Bytes(r.f)
                /\ secretData' = encoded'
  /\ UNCHANGED <<args, createSecret, deleteUser, listUsers, username, remote,
                 data, users, stdout, password1, password2, writes, reread,
                 exitCode>>

\* the message Run prints after the Create or Update call of the set-password
\* path returned callErr
UpdatedMessage(callErr) ==
  IF callErr # NoErr THEN <<Line("Password updated successfully")>> ELSE <<>>

\* RunWrite calling again after a call that failed
RunWriteRetrying ==
  /\ pc \in {"Create", "Update"}
  /\ \E ok \in BOOLEAN :
       LET callErr == IF ok THEN NoErr ELSE ErrRemote
       IN /\ writes' = Append(writes, [call |-> pc, data |-> secretData, ok |-> ok])
          /\ remote' = IF ok THEN [kind |-> "Opaque", data |-> secretData] ELSE remote
          /\ stdout' = IF op.name = "SetPassword"
                       THEN stdout \o UpdatedMessage(callErr)
                       ELSE stdout
          /\ err' = callErr
          /\ pc' = IF ok \/ Len(writes) >= 1 THEN "returned" ELSE pc
  /\ UNCHANGED <<args, createSecret, deleteUser, listUsers, username, secretData,
                 data, htpasswd, before, op, users, password1, password2, encoded,
                 reread, exitCode>>

\* o.clientset.CoreV1().Secrets(o.namespace).Create/Update(secret), which may
\* fail, and the return of Run after it
RunWrite ==
  /\ pc \in {"Create", "Update"}
  /\ \E ok \in BOOLEAN :
       LET callErr == IF ok THEN NoErr ELSE ErrRemote
       IN /\ writes' = Append(writes, [call |-> pc, data |-> secretData, ok |-> ok])
          /\ remote' = IF ok THEN [kind |-> "Opaque", data |-> secretData] ELSE remote
          /\ stdout' = IF op.name = "SetPassword"
                       THEN stdout \o UpdatedMessage(callErr)
                       ELSE stdout
          /\ err' = callErr
  /\ pc' = "returned"
  /\ UNCHANGED <<args, createSecret, deleteUser, listUsers, username, secretData,
                 data, htpasswd, before, op, users, password1, password2, encoded,
                 reread, exitCode>>

Next ==
  \/ Complete
  \/ Validate
  \/ GetSecret
  \/ RunNewPasswordFile
  \/ RunListUsers
  \/ RunDeleteUser
  \/ RunReadPassword1
  \/ RunReadPassword2
  \/ RunSetPassword
  \/ RunWrite

Spec == Init /\ [][Next]_vars

(***************************************************************************)
(* The properties.                                                         *)
(***************************************************************************)
Range(s) == {s[i] : i \in 1..Len(s)}

\* a username as the data model defines it: not empty, no ':', no newline
WellFormedUsername(u) == u # <<>> /\ ":" \notin Range(u) /\ "\n" \notin Range(u)

\* a field the file format carries unchanged: no ':', no newline, no white
\* space around it
CleanField(x) == ":" \notin Range(x) /\ "\n" \notin Range(x) /\ TrimSpace(x) = x

\* the lines of a raw file, trimmed
TrimmedLines(d) == [i \in 1..Len(Split(d, "\n")) |-> TrimSpace(Split(d, "\n")[i])]

\* the number of ':'-delimited fields of a line
Fields(l) == Cardinality({i \in 1..Len(l) : l[i] = ":"}) + 1

\* the username a line carries: what stands before its first ':', trimmed
LineUsername(l) ==
  LET colons == {i \in 1..Len(l) : l[i] = ":"}
  IN IF colons = {} THEN TrimSpace(l)
     ELSE TrimSpace(SubSeq(l, 1, (CHOOSE i \in colons : \A j \in colons : i <= j) - 1))

\* the lines of a raw file that are not blank
NonBlank(d) == {i \in 1..Len(TrimmedLines(d)) : TrimmedLines(d)[i] # <<>>}

Printed(text) == \E i \in 1..Len(stdout) : stdout[i].text = text

\* C1, as claimed: every store whose usernames are non-empty and hold no ':'
\* and no newline is read back from its Bytes with the same mapping.
C1_RoundTripAsClaimed ==
  (pc = "reread" /\ \A u \in DOMAIN htpasswd.passwords : WellFormedUsername(u))
    => (reread.err = NoErr /\ reread.f = htpasswd)

\* C1, amended: every store whose usernames are non-empty and whose usernames
\* and credentials hold no ':' and no newline and have no white space around
\* them is read back from its Bytes, whatever the order of the lines, with the
\* same mapping.
C1_RoundTrip ==
  (/\ pc = "reread"
   /\ \A u \in DOMAIN htpasswd.passwords :
        /\ WellFormedUsername(u)
        /\ CleanField(u)
        /\ CleanField(htpasswd.passwords[u]))
    => (reread.err = NoErr /\ reread.f = htpasswd)

C1_Witness ==
  /\ pc = "reread"
  /\ op.name = "SetPassword"
  /\ DOMAIN htpasswd.passwords = {<<"a">>, <<"a", "a">>}
  /\ \A u \in DOMAIN htpasswd.passwords : CleanField(htpasswd.passwords[u])
  /\ SubSeq(encoded, 1, 3) = <<"a", "a", ":">>
  /\ reread.f = htpasswd

\* C2: newPasswordFile fails, and returns no passwordFile, for every input
\* that has a non-blank line whose number of ':'-delimited fields is not two,
\* wherever the line stands.
C2_MalformedLineFails ==
  (pc = "decoded" /\ \E i \in NonBlank(data) : Fields(TrimmedLines(data)[i]) # 2)
    => (err # NoErr /\ htpasswd = Nil)

C2_Witness ==
  /\ pc = "decoded"
  /\ Len(TrimmedLines(data)) = 3
  /\ Fields(TrimmedLines(data)[1]) = 2
  /\ Fields(TrimmedLines(data)[2]) = 2
  /\ LineUsername(TrimmedLines(data)[1]) # LineUsername(TrimmedLines(data)[2])
  /\ Fields(TrimmedLines(data)[3]) = 3
  /\ err = ErrTokens
  /\ htpasswd = Nil

\* C3: newPasswordFile fails, and returns no passwordFile, whenever two
\* non-blank lines carry the same username; a passwordFile it returns has
\* one entry for each non-blank line.
C3_DuplicateUsernameFails ==
  pc = "decoded" =>
    /\ (\E i, j \in NonBlank(data) :
          /\ i # j
          /\ LineUsername(TrimmedLines(data)[i]) = LineUsername(TrimmedLines(data)[j]))
         => (err # NoErr /\ htpasswd = Nil)
    /\ err = NoErr
         => Cardinality(DOMAIN htpasswd.passwords) = Cardinality(NonBlank(data))

C3_Witness ==
  /\ pc = "decoded"
  /\ Len(TrimmedLines(data)) = 2
  /\ Fields(TrimmedLines(data)[1]) = 2
  /\ Fields(TrimmedLines(data)[2]) = 2
  /\ LineUsername(TrimmedLines(data)[1]) = <<"a">>
  /\ LineUsername(TrimmedLines(data)[2]) = <<"a">>
  /\ TrimmedLines(data)[1] # TrimmedLines(data)[2]
  /\ err = ErrExists
  /\ htpasswd = Nil

\* C4: DeleteUser of a username the store does not hold returns an error and
\* leaves the store as it was.
C4_DeleteAbsent ==
  (op.name = "DeleteUser" /\ op.username \notin DOMAIN before.passwords)
    => (pc = "operated" => err = ErrNoUser) /\ htpasswd = before

C4_Witness ==
  /\ pc = "operated"
  /\ op.name = "DeleteUser"
  /\ op.username \notin DOMAIN before.passwords
  /\ Cardinality(DOMAIN before.passwords) = 2
  /\ err = ErrNoUser

\* C5: DeleteUser of a username the store holds succeeds and removes that
\* entry alone: the username is gone from the store and from ListUsers, every
\* other username is there with its credential.
C5_DeletePresent ==
  (op.name = "DeleteUser" /\ op.username \in DOMAIN before.passwords)
    => /\ pc = "operated" => err = NoErr
       /\ DOMAIN htpasswd.passwords = DOMAIN before.passwords \ {op.username}
       /\ \A u \in DOMAIN htpasswd.passwords :
            htpasswd.passwords[u] = before.passwords[u]
       /\ pc = "listed" =>
            /\ Range(users) = DOMAIN before.passwords \ {op.username}
            /\ Len(users) = Cardinality(DOMAIN before.passwords) - 1

C5_Witness ==
  /\ pc = "listed"
  /\ op.name = "DeleteUser"
  /\ op.username \in DOMAIN before.passwords
  /\ Cardinality(DOMAIN before.passwords) = 2
  /\ Len(users) = 1

\* the credentials of the passwords of the model, as base64 and sha1 give them
ExpectedCredential(p) ==
  IF p = Secret
  THEN <<"{", "S", "H", "A", "}", "5", "e", "n", "6", "G", "6", "M", "e", "z", "R", "r",
         "o", "T", "3", "X", "K", "q", "k", "d", "P", "O", "m", "Y", "/", "B", "f", "Q",
         "=">>
  ELSE IF p = <<"a">>
  THEN <<"{", "S", "H", "A", "}", "h", "v", "f", "k", "N", "/", "q", "l", "p", "/", "z",
         "h", "X", "R", "3", "c", "u", "e", "r", "q", "6", "j", "d", "2", "Z", "7", "g",
         "=">>
  ELSE <<"{", "S", "H", "A", "}", "2", "j", "m", "j", "7", "l", "5", "r", "S", "w", "0",
         "y", "V", "b", "/", "v", "l", "W", "A", "Y", "k", "K", "/", "Y", "B", "w", "k",
         "=">>

\* C6: SetPassword never fails and is an upsert: the username then maps to
\* '{SHA}' and the padded base64 of the SHA-1 of the password, which depends
\* on the password alone; every other entry is as it was, and the store has
\* one entry more iff the username was not in it.
C6_SetPasswordUpserts ==
  op.name = "SetPassword" =>
    /\ pc = "operated" => err = NoErr
    /\ DOMAIN htpasswd.passwords = DOMAIN before.passwords \cup {op.username}
    /\ htpasswd.passwords[op.username] = ExpectedCredential(op.password)
    /\ \A u \in DOMAIN before.passwords \ {op.username} :
         htpasswd.passwords[u] = before.passwords[u]
    /\ Cardinality(DOMAIN htpasswd.passwords) =
         Cardinality(DOMAIN before.passwords)
           + (IF op.username \in DOMAIN before.passwords THEN 0 ELSE 1)

C6_Witness ==
  /\ pc = "operated"
  /\ op.name = "SetPassword"
  /\ op.password = Secret
  /\ op.username \in DOMAIN before.passwords
  /\ before.passwords[op.username] # htpasswd.passwords[op.username]
  /\ Cardinality(DOMAIN before.passwords) = 2

\* C7: SetPassword rejects a username that is empty or holds a ':' or a
\* newline, so that no such key is ever inserted into the store.
C7_InvalidUsernameRejected ==
  (pc \in {"Create", "Update"} /\ op.name = "SetPassword")
    => /\ ~WellFormedUsername(op.username) => err # NoErr
       /\ \A u \in DOMAIN htpasswd.passwords \ DOMAIN before.passwords :
            WellFormedUsername(u)

\* C8, as claimed: after SetPassword of a username that holds a ':' or a
\* newline, the next read of Bytes fails.
C8_UnparseableAsClaimed ==
  (/\ pc = "reread"
   /\ op.name = "SetPassword"
   /\ (":" \in Range(op.username) \/ "\n" \in Range(op.username)))
    => reread.err # NoErr

\* C8, amended: after SetPassword of a username that holds a ':' or a
\* newline, the next read of Bytes fails or returns a store without that
\* username; it fails whenever the username holds a ':' and no newline.
C8_Unparseable ==
  (/\ pc = "reread"
   /\ op.name = "SetPassword"
   /\ (":" \in Range(op.username) \/ "\n" \in Range(op.username)))
    => /\ reread.err # NoErr \/ op.username \notin DOMAIN reread.f.passwords
       /\ "\n" \notin Range(op.username) => reread.err # NoErr

C8_Witness ==
  /\ pc = "reread"
  /\ op.name = "SetPassword"
  /\ "\n" \in Range(op.username)
  /\ "a" \in Range(op.username)
  /\ before.passwords # EmptyMap
  /\ reread.err = NoErr
  /\ reread.f # htpasswd

\* C9: one invocation writes the secret at most once, and only after the
\* bytes were decoded and the one operation chosen, DeleteUser or SetPassword,
\* succeeded, the value written being Bytes() of the store after it; listing
\* users, a failed decode, a failed DeleteUser or two passwords that differ
\* leave the secret unwritten.
C9_OneWriteAfterMutation ==
  /\ Len(writes) <= 1
  /\ writes # <<>> =>
       /\ newPasswordFile(data).err = NoErr
       /\ htpasswd # Nil
       /\ ~listUsers
       /\ op.name = (IF deleteUser THEN "DeleteUser" ELSE "SetPassword")
       /\ op.name = "DeleteUser" => op.username \in DOMAIN before.passwords
       /\ op.name = "SetPassword" => password1 = password2
       /\ writes[1].data \in Bytes(htpasswd)
       /\ writes[1].ok => remote = [kind |-> "Opaque", data |-> writes[1].data]
  /\ listUsers => writes = <<>>
  /\ newPasswordFile(data).err # NoErr => writes = <<>>
  /\ (op.name = "DeleteUser" /\ op.username \notin DOMAIN before.passwords)
       => writes = <<>>
  /\ password1 # password2 => writes = <<>>

C9_Witness ==
  /\ pc = "returned"
  /\ Len(writes) = 1
  /\ writes[1].ok
  /\ op.name = "DeleteUser"
  /\ Cardinality(DOMAIN htpasswd.passwords) = 1
  /\ remote.data # data

\* C10: on the set-password path 'Password updated successfully' is printed
\* iff the Create or Update call returned no error, and never when Run
\* returns an error.
C10_MessageIffWritten ==
  (pc = "returned" /\ op.name = "SetPassword" /\ writes # <<>>)
    => /\ Printed("Password updated successfully") <=> writes[1].ok
       /\ err # NoErr => ~Printed("Password updated successfully")

====
